---- MODULE Spec2Model ----
(***************************************************************************)
(* Model of terrain/run.py: the function render_terrain, the command-line  *)
(* entry point that wraps it, and the batch variant (ten numbered terrain  *)
(* files rendered to PNG and stitched into a looping GIF).                 *)
(*                                                                         *)
(* A behaviour is one run: a command-line run ("cli"), one direct call of  *)
(* render_terrain by another program ("direct"), or one batch run          *)
(* ("batch").  Each statement of the source is one action; pc is the       *)
(* statement about to execute.  Calls into the plotting library are        *)
(* recorded in log, in the order they are made.                            *)
(***************************************************************************)
EXTENDS Integers, Sequences, FiniteSets

VARIABLES mode, pc, args, mesh, plotter, log, window, written, stdout,
          stderr, status, ret, frame, pngs, gif

vars == <<mode, pc, args, mesh, plotter, log, window, written, stdout,
          stderr, status, ret, frame, pngs, gif>>

(* ---------------------------------------------------------------------- *)
(* The environment: files on disk and the values callers pass.            *)
(* ---------------------------------------------------------------------- *)

\* Kind of file found at each input path: "plain" is a mesh without
\* per-point data, "scalars" a mesh with a per-point array, "corrupt" a
\* file the reader rejects, "missing" no file at all.
FileKind ==
  [p \in {"images/eroded_terrain.ply", "scalars.ply", "corrupt.ply", "missing.ply"} |->
     CASE p = "images/eroded_terrain.ply" -> "plain"
       [] p = "scalars.ply" -> "scalars"
       [] p = "corrupt.ply" -> "corrupt"
       [] OTHER -> "missing"]

InputPaths == DOMAIN FileKind
OutputPaths == {"terrain_render.png", "out/frame.png"}
Cmaps == {"terrain", "viridis"}
Backgrounds == {"black", "white"}

\* choices=[...] of the --view option
ViewChoices == {"isometric", "xy", "xz", "yz"}
\* values a caller can pass as view_type: the four names and one other
ViewTypes == ViewChoices \cup {"top"}

ArgSets == [input_file : InputPaths, output_file : OutputPaths, cmap : Cmaps,
            background_color : Backgrounds, view_type : ViewTypes]

\* the defaults of the signature, which are also the argparse defaults
DefaultArgs == [input_file |-> "images/eroded_terrain.ply",
                output_file |-> "terrain_render.png",
                cmap |-> "terrain",
                background_color |-> "black",
                view_type |-> "isometric"]

(* ---------------------------------------------------------------------- *)
(* Library operations used by render_terrain.                             *)
(* ---------------------------------------------------------------------- *)

NoMesh == [src |-> "None", point_data |-> {}, active |-> "None"]

\* os.path.exists(path)
PathExistsAlways(path) == TRUE
PathExists(path) == FileKind[path] # "missing"

\* pv.read raises for a missing or unreadable file
Readable(path) == FileKind[path] \in {"plain", "scalars"}

\* pv.read(input_file)
ReadMesh(path) ==
  IF FileKind[path] = "scalars"
  THEN [src |-> path, point_data |-> {"height"}, active |-> "height"]
  ELSE [src |-> path, point_data |-> {}, active |-> "None"]

\* not mesh.point_data
NeedsElevationAlways(m) == TRUE
NeedsElevation(m) == m.point_data = {}

\* mesh.elevation(): a copy with the per-point array "Elevation", made active
Elevation(m) == [m EXCEPT !.point_data = @ \cup {"Elevation"}, !.active = "Elevation"]

NoPlotter == [created |-> FALSE, off_screen |-> FALSE, background |-> "None",
              actors |-> <<>>, presets |-> <<>>, viewup |-> <<>>]

\* pv.Plotter(off_screen=True)
NewPlotterOnScreen == [created |-> TRUE, off_screen |-> FALSE, background |-> "default",
                       actors |-> <<>>, presets |-> <<>>, viewup |-> <<>>]
NewPlotter == [created |-> TRUE, off_screen |-> TRUE, background |-> "default",
               actors |-> <<>>, presets |-> <<>>, viewup |-> <<>>]

\* the if/elif chain on view_type: the presets it calls, in order
ViewPresetXzSwapped(view_type) ==
  IF view_type = "isometric" THEN <<"view_isometric">>
  ELSE IF view_type = "xy" THEN <<"view_xy">>
  ELSE IF view_type = "xz" THEN <<"view_xy">>
  ELSE IF view_type = "yz" THEN <<"view_yz">>
  ELSE <<>>
ViewPresetElseIsometric(view_type) ==
  IF view_type = "xy" THEN <<"view_xy">>
  ELSE IF view_type = "xz" THEN <<"view_xz">>
  ELSE IF view_type = "yz" THEN <<"view_yz">>
  ELSE <<"view_isometric">>
ViewPreset(view_type) ==
  IF view_type = "isometric" THEN <<"view_isometric">>
  ELSE IF view_type = "xy" THEN <<"view_xy">>
  ELSE IF view_type = "xz" THEN <<"view_xz">>
  ELSE IF view_type = "yz" THEN <<"view_yz">>
  ELSE <<>>

\* return output_file
ReturnValueInput(a) == a.input_file
ReturnValue(a) == a.output_file

(* ---------------------------------------------------------------------- *)
(* Initial state.                                                         *)
(* ---------------------------------------------------------------------- *)

Init ==
  /\ mode \in {"cli", "direct", "batch"}
  /\ args \in IF mode = "batch" THEN {DefaultArgs} ELSE ArgSets
  /\ pc = CASE mode = "cli" -> "parse"
            [] mode = "direct" -> "read"
            [] OTHER -> "batch_render"
  /\ mesh = NoMesh
  /\ plotter = NoPlotter
  /\ log = <<>>
  /\ window = FALSE
  /\ written = <<>>
  /\ stdout = <<>>
  /\ stderr = <<>>
  /\ status = -1
  /\ ret = "None"
  /\ frame = 1
  /\ pngs = <<>>
  /\ gif = <<>>

Rendering == mode \in {"cli", "direct"}

\* an exception leaves render_terrain; uncaught in the script, it ends the
\* process with status 1
Raise ==
  /\ pc' = "raised"
  /\ status' = IF mode = "cli" THEN 1 ELSE status

(* ---------------------------------------------------------------------- *)
(* The command-line entry point.                                          *)
(* ---------------------------------------------------------------------- *)

\* args = parser.parse_args(): a --view outside the choices is a usage
\* error, reported on stderr with exit status 2
ParseArgs ==
  /\ mode = "cli" /\ pc = "parse"
  /\ IF args.view_type \in ViewChoices
     THEN /\ pc' = "check_exists"
          /\ UNCHANGED <<stderr, status>>
     ELSE /\ pc' = "exited"
          /\ stderr' = Append(stderr, [text |-> "usage: invalid choice", path |-> args.view_type])
          /\ status' = 2
  /\ UNCHANGED <<mode, args, mesh, plotter, log, window, written, stdout, ret, frame, pngs, gif>>

\* if not os.path.exists(args.input): print(...); exit(1)
CheckExists ==
  /\ mode = "cli" /\ pc = "check_exists"
  /\ IF ~PathExists(args.input_file)
     THEN /\ stdout' = Append(stdout, [text |-> "ERROR: El archivo no existe", path |-> args.input_file])
          /\ status' = 1
          /\ pc' = "exited"
     ELSE /\ pc' = "read"
          /\ UNCHANGED <<stdout, status>>
  /\ UNCHANGED <<mode, args, mesh, plotter, log, window, written, stderr, ret, frame, pngs, gif>>

\* print(f"Imagen generada correctamente: {output}")
PrintOk ==
  /\ mode = "cli" /\ pc = "print_ok"
  /\ stdout' = Append(stdout, [text |-> "Imagen generada correctamente", path |-> ret])
  /\ status' = 0
  /\ pc' = "exited"
  /\ UNCHANGED <<mode, args, mesh, plotter, log, window, written, stderr, ret, frame, pngs, gif>>

(* ---------------------------------------------------------------------- *)
(* render_terrain, statement by statement.                                *)
(* ---------------------------------------------------------------------- *)

\* mesh = pv.read(input_file)
Read ==
  /\ Rendering /\ pc = "read"
  /\ log' = Append(log, "read")
  /\ IF Readable(args.input_file)
     THEN /\ mesh' = ReadMesh(args.input_file)
          /\ pc' = "elevation"
          /\ UNCHANGED status
     ELSE /\ Raise
          /\ UNCHANGED mesh
  /\ UNCHANGED <<mode, args, plotter, window, written, stdout, stderr, ret, frame, pngs, gif>>

\* if not mesh.point_data: mesh = mesh.elevation()
ComputeElevation ==
  /\ Rendering /\ pc = "elevation"
  /\ IF NeedsElevation(mesh)
     THEN /\ mesh' = Elevation(mesh)
          /\ log' = Append(log, "elevation")
     ELSE UNCHANGED <<mesh, log>>
  /\ pc' = "plotter"
  /\ UNCHANGED <<mode, args, plotter, window, written, stdout, stderr, status, ret, frame, pngs, gif>>

\* plotter = pv.Plotter(off_screen=True)
CreatePlotter ==
  /\ Rendering /\ pc = "plotter"
  /\ plotter' = NewPlotter
  /\ log' = Append(log, "Plotter")
  /\ pc' = "set_background"
  /\ UNCHANGED <<mode, args, mesh, window, written, stdout, stderr, status, ret, frame, pngs, gif>>

\* plotter.set_background(color=background_color)
SetBackground ==
  /\ Rendering /\ pc = "set_background"
  /\ plotter' = [plotter EXCEPT !.background = args.background_color]
  /\ log' = Append(log, "set_background")
  /\ pc' = "add_mesh"
  /\ UNCHANGED <<mode, args, mesh, window, written, stdout, stderr, status, ret, frame, pngs, gif>>

\* plotter.add_mesh(mesh, cmap=cmap, ..., scalars=mesh.active_scalars_name, ...)
AddMeshSkipped ==
  /\ Rendering /\ pc = "add_mesh"
  /\ pc' = "view"
  /\ UNCHANGED <<mode, args, mesh, plotter, log, window, written, stdout, stderr, status, ret, frame, pngs, gif>>
AddMesh ==
  /\ Rendering /\ pc = "add_mesh"
  /\ plotter' = [plotter EXCEPT !.actors =
                   Append(@, [mesh |-> mesh, cmap |-> args.cmap, scalars |-> mesh.active])]
  /\ log' = Append(log, "add_mesh")
  /\ pc' = "view"
  /\ UNCHANGED <<mode, args, mesh, window, written, stdout, stderr, status, ret, frame, pngs, gif>>

\* if view_type == "isometric": ... elif ... "yz": plotter.view_yz()
SelectView ==
  /\ Rendering /\ pc = "view"
  /\ plotter' = [plotter EXCEPT !.presets = @ \o ViewPreset(args.view_type)]
  /\ log' = log \o ViewPreset(args.view_type)
  /\ pc' = "set_viewup"
  /\ UNCHANGED <<mode, args, mesh, window, written, stdout, stderr, status, ret, frame, pngs, gif>>

\* plotter.set_viewup([0, 0, 1])
SetViewup ==
  /\ Rendering /\ pc = "set_viewup"
  /\ plotter' = [plotter EXCEPT !.viewup = <<0, 0, 1>>]
  /\ log' = Append(log, "set_viewup")
  /\ pc' = "show"
  /\ UNCHANGED <<mode, args, mesh, window, written, stdout, stderr, status, ret, frame, pngs, gif>>

\* plotter.show(screenshot=output_file): renders, opening a window unless
\* the plotter is off-screen, and saves the image to the given path
Show ==
  /\ Rendering /\ pc = "show"
  /\ window' = (window \/ ~plotter.off_screen)
  /\ written' = Append(written, args.output_file)
  /\ log' = Append(log, "show")
  /\ pc' = "return"
  /\ UNCHANGED <<mode, args, mesh, plotter, stdout, stderr, status, ret, frame, pngs, gif>>

\* return output_file
Return ==
  /\ Rendering /\ pc = "return"
  /\ ret' = ReturnValue(args)
  /\ pc' = IF mode = "cli" THEN "print_ok" ELSE "returned"
  /\ UNCHANGED <<mode, args, mesh, plotter, log, window, written, stdout, stderr, status, frame, pngs, gif>>

(* ---------------------------------------------------------------------- *)
(* The batch variant.                                                     *)
(* ---------------------------------------------------------------------- *)

\* number of numbered terrain files
NumFrames == 10

\* the fixed sequence of file numbers rendered
BatchSequenceShort == [i \in 1..(NumFrames - 1) |-> i]
BatchSequence == [i \in 1..NumFrames |-> i]

\* render terrain file number BatchSequence[frame] to its PNG
BatchRender ==
  /\ mode = "batch" /\ pc = "batch_render"
  /\ frame <= Len(BatchSequence)
  /\ pngs' = Append(pngs, BatchSequence[frame])
  /\ frame' = frame + 1
  /\ UNCHANGED <<mode, pc, args, mesh, plotter, log, window, written, stdout, stderr, status, ret, gif>>

\* all files rendered: stitch the PNGs, in order, into one GIF with loop=0
BatchGif ==
  /\ mode = "batch" /\ pc = "batch_render"
  /\ frame > Len(BatchSequence)
  /\ gif' = Append(gif, [frames |-> pngs, loop |-> 0])
  /\ pc' = "batch_done"
  /\ UNCHANGED <<mode, args, mesh, plotter, log, window, written, stdout, stderr, status, ret, frame, pngs>>

Next ==
  \/ ParseArgs
  \/ CheckExists
  \/ PrintOk
  \/ Read
  \/ ComputeElevation
  \/ CreatePlotter
  \/ SetBackground
  \/ AddMesh
  \/ SelectView
  \/ SetViewup
  \/ Show
  \/ Return
  \/ BatchRender
  \/ BatchGif

Spec == Init /\ [][Next]_vars

(* ---------------------------------------------------------------------- *)
(* Properties.                                                            *)
(* ---------------------------------------------------------------------- *)

\* number of occurrences of call e in the log
Count(e) == Cardinality({i \in 1..Len(log) : log[i] = e})
\* position of the (first) occurrence of call e in the log
Pos(e) == CHOOSE i \in 1..Len(log) : log[i] = e

PresetCalls == {"view_isometric", "view_xy", "view_xz", "view_yz"}
PresetCount == Cardinality({i \in 1..Len(log) : log[i] \in PresetCalls})

\* the preset each view name stands for
PresetName == [v \in ViewChoices |->
                 CASE v = "isometric" -> "view_isometric"
                   [] v = "xy" -> "view_xy"
                   [] v = "xz" -> "view_xz"
                   [] OTHER -> "view_yz"]

\* the call has executed its view selection
PastView ==
  /\ Rendering
  /\ \/ pc \in {"set_viewup", "show", "return", "returned", "print_ok"}
     \/ pc = "exited" /\ status = 0

\* the call of render_terrain has returned
Completed == Rendering /\ ret # "None"

ErrorMessage == [text |-> "ERROR: El archivo no existe", path |-> args.input_file]
SuccessMessages == {i \in 1..Len(stdout) : stdout[i].text = "Imagen generada correctamente"}

NothingRendered ==
  /\ log = <<>>
  /\ mesh = NoMesh
  /\ plotter = NoPlotter
  /\ written = <<>>
  /\ window = FALSE
  /\ SuccessMessages = {}

\* C1 as stated: a command-line run whose --input does not exist never
\* renders anything and ends with the error message and exit status 1.
C1_Original ==
  (mode = "cli" /\ FileKind[args.input_file] = "missing") =>
     /\ NothingRendered
     /\ pc = "exited" => (status = 1 /\ stdout = <<ErrorMessage>>)

\* C1 (amended): a command-line run whose --input does not exist never calls
\* render_terrain (no mesh, no plotter, no image, no success message); when
\* the command line is one the parser accepts, the run ends with the error
\* message and exit status 1.
C1_MissingInputExits1 ==
  (mode = "cli" /\ FileKind[args.input_file] = "missing") =>
     /\ NothingRendered
     /\ (pc = "exited" /\ args.view_type \in ViewChoices) =>
           (status = 1 /\ stdout = <<ErrorMessage>>)

C1_Witness ==
  /\ mode = "cli" /\ FileKind[args.input_file] = "missing"
  /\ args.view_type \in ViewChoices
  /\ pc = "exited" /\ status = 1 /\ stdout = <<ErrorMessage>>

\* the steps C2 and its amendment share: each library call once, in order,
\* the screenshot last, one image written
StepsInOrder ==
  /\ \A e \in {"read", "Plotter", "set_background", "add_mesh", "set_viewup", "show"} :
        Count(e) = 1
  /\ Pos("read") < Pos("Plotter")
  /\ Pos("Plotter") < Pos("set_background")
  /\ Pos("set_background") < Pos("add_mesh")
  /\ Pos("add_mesh") < Pos("set_viewup")
  /\ \A i \in 1..Len(log) :
        log[i] \in PresetCalls => (Pos("add_mesh") < i /\ i < Pos("set_viewup"))
  /\ Pos("show") = Len(log)
  /\ Len(written) = 1

\* the screenshot is never written before the mesh is loaded and added
NoScreenshotBeforeMesh ==
  written # <<>> =>
     /\ Count("read") = 1 /\ Count("add_mesh") = 1
     /\ Len(plotter.actors) = 1
     /\ plotter.actors[1].mesh = mesh /\ mesh # NoMesh

\* C2 as stated: every completed call performs load, plotter and background,
\* add mesh, camera view selection and view-up, screenshot, each exactly
\* once and in this order.
C2_Original ==
  /\ Rendering => NoScreenshotBeforeMesh
  /\ Completed => (StepsInOrder /\ PresetCount = 1)

\* C2 (amended): as C2, except that the camera view selection applies one
\* preset when view_type is one of the four names and none otherwise.
C2_FixedOrder ==
  /\ Rendering => NoScreenshotBeforeMesh
  /\ Completed =>
       /\ StepsInOrder
       /\ PresetCount = (IF args.view_type \in ViewChoices THEN 1 ELSE 0)

C2_Witness ==
  /\ Completed /\ StepsInOrder /\ PresetCount = 1
  /\ log = <<"read", "elevation", "Plotter", "set_background", "add_mesh",
             "view_xz", "set_viewup", "show">>

\* C3: whenever render_terrain returns, the value is the output_file it was
\* given and the one screenshot was written to that path; the success
\* message of the command line names the same path.
C3_ReturnsOutputFile ==
  Rendering =>
     /\ Completed => (ret = args.output_file /\ written = <<ret>>)
     /\ \A i \in SuccessMessages :
           stdout[i].path = args.output_file /\ written = <<stdout[i].path>>

C3_Witness ==
  /\ mode = "cli" /\ pc = "exited" /\ status = 0
  /\ args.output_file = "out/frame.png"
  /\ ret = "out/frame.png"
  /\ SuccessMessages # {}

\* C4: the plotter is always off-screen, no window is ever opened, and the
\* only file a render writes is the screenshot at output_file.
C4_OffScreen ==
  Rendering =>
     /\ plotter.created => plotter.off_screen
     /\ window = FALSE
     /\ Len(written) <= 1
     /\ \A i \in 1..Len(written) : written[i] = args.output_file

C4_Witness ==
  /\ Rendering /\ pc = "return"
  /\ plotter.created /\ plotter.off_screen
  /\ window = FALSE /\ written = <<args.output_file>>

\* C5: the batch run renders the ten numbered files in numeric order, one
\* PNG each, and writes one looping GIF of those ten PNGs only after all of
\* them have been written.
C5_BatchThenGif ==
  mode = "batch" =>
     /\ Len(pngs) <= 10
     /\ \A i \in 1..Len(pngs) : pngs[i] = i
     /\ Len(gif) <= 1
     /\ gif # <<>> =>
          /\ Len(pngs) = 10
          /\ gif[1].frames = pngs
          /\ gif[1].loop = 0
     /\ pc = "batch_done" => Len(gif) = 1

C5_Witness ==
  /\ mode = "batch" /\ pc = "batch_done"
  /\ Len(pngs) = 10 /\ Len(gif) = 1

\* C6: for each of the four view names exactly the preset of that name is
\* applied, and a command-line run only renders with one of the four names,
\* so it applies exactly one preset.
C6_OnePresetPerView ==
  Rendering =>
     /\ ~PastView => plotter.presets = <<>>
     /\ (PastView /\ args.view_type \in ViewChoices) =>
           plotter.presets = <<PresetName[args.view_type]>>
     /\ (mode = "cli" /\ pc \notin {"parse", "exited"}) => args.view_type \in ViewChoices
     /\ (mode = "cli" /\ PastView) => Len(plotter.presets) = 1

C6_Witness ==
  /\ mode = "cli" /\ PastView /\ args.view_type = "xz"
  /\ plotter.presets = <<"view_xz">>

\* the mesh has passed the elevation test
PastElevation ==
  Rendering /\ mesh # NoMesh /\ pc # "elevation"

\* C7: elevation is computed exactly when the loaded mesh has no per-point
\* data; a mesh with per-point data is added unchanged and coloured by its
\* own active scalars.
C7_ElevationIffNoPointData ==
  PastElevation =>
     /\ FileKind[args.input_file] = "plain" =>
           /\ Count("elevation") = 1
           /\ mesh.point_data = {"Elevation"} /\ mesh.active = "Elevation"
     /\ FileKind[args.input_file] = "scalars" =>
           /\ Count("elevation") = 0
           /\ mesh.point_data = {"height"} /\ mesh.active = "height"
     /\ \A i \in 1..Len(plotter.actors) :
           /\ plotter.actors[i].mesh = mesh
           /\ plotter.actors[i].scalars = mesh.active
           /\ plotter.actors[i].cmap = args.cmap

C7_Witness ==
  /\ PastElevation /\ FileKind[args.input_file] = "scalars"
  /\ Len(plotter.actors) = 1
  /\ plotter.actors[1].scalars = "height"
  /\ Count("elevation") = 0

\* C8 as stated: the background in effect when the screenshot is taken is
\* transparent.
C8_TransparentBackground ==
  (Rendering /\ written # <<>>) => plotter.background = "transparent"

\* C9: a direct call with a view_type outside the four names applies no
\* preset and raises no error: it still sets view-up to (0, 0, 1), writes
\* the screenshot to output_file and returns output_file.
C9_UnknownViewNoPreset ==
  (mode = "direct" /\ args.view_type \notin ViewChoices) =>
     /\ plotter.presets = <<>> /\ PresetCount = 0
     /\ pc = "raised" => ~Readable(args.input_file)
     /\ pc = "returned" =>
           /\ plotter.viewup = <<0, 0, 1>>
           /\ written = <<args.output_file>>
           /\ ret = args.output_file
           /\ status = -1

C9_Witness ==
  /\ mode = "direct" /\ args.view_type = "top" /\ pc = "returned"
  /\ plotter.presets = <<>> /\ plotter.viewup = <<0, 0, 1>>
  /\ ret = args.output_file

====
